---- MODULE Spec2Model ----
(***************************************************************************)
(* Model of the Hytale dashboard background worker (src/worker.py): the    *)
(* scheduling loop of main(), the log-derived player reconciliation of     *)
(* check_player_events() and initial_player_sync(), the metric sampler and *)
(* the retention pruner, over one SQLite connection (its uncommitted view  *)
(* `db` and the committed contents `disk`) and the journal of the game     *)
(* server (`journal`).  Times are integer seconds; a stored timestamp      *)
(* stands for its ISO-8601 text, which IsoFormat renders where the code    *)
(* compares texts.                                                         *)
(***************************************************************************)
EXTENDS Integers, Sequences, FiniteSets, TLC

\* ------------------------------------------------------------ constants
PERF_INTERVAL == 5
PLAYER_INTERVAL == 10
CLEANUP_INTERVAL == 3600
PERF_RETENTION_HOURS == 24

Hour == 60 * 60
Day == 24 * Hour

\* Python's None / SQL NULL in a numeric or timestamp column, and in a text column.
None == -1
NoneText == "None"

\* ------------------------------------------------------------ bounds
\* Lines the journal may receive in one run of the model.
MaxLines == 2
\* Sleeps of the loop in one run of the model, over all the processes of the run.
MaxIters == 1
\* Commands that take seconds instead of no time, in one run of the model.
MaxSlow == 1

\* The wall clock when the model starts (ten days after the epoch of the model).
StartClock == 10 * Day

VARIABLES
    pc,            \* where main() is: starting, top, perf, player, cleanup, sleep, stopped
    running,       \* the global flag signal_handler clears
    clock,         \* the wall clock (time.time(), datetime.now(), journalctl's "now")
    now,           \* main()'s local `now`, read at the top of an iteration
    last_perf, last_player, last_cleanup,   \* main()'s locals
    journal,       \* the game server's journal, oldest line first
    db,            \* the connection's view of the database (uncommitted writes included)
    disk,          \* the committed database
    iter,          \* history: tasks due at the top of this iteration and tasks run in it
    tick,          \* history: what the last ingestion tick or backfill saw and did
    iters,         \* the sleeps so far, which bound the model
    slow,          \* the slow commands so far, which bound the model
    h              \* the store, the journal and the history of the runs of one part alone

\* The worker's own variables.
wvars == <<pc, running, clock, now, last_perf, last_player, last_cleanup,
           journal, db, disk, iter, tick, iters, slow>>

vars == <<wvars, h>>

\* ------------------------------------------------------------ storage
\* init_db(): four empty tables; metadata holds the single key last_event_ts.
EmptyDb ==
    [players |-> <<>>, player_events |-> <<>>, last_event_ts |-> None, performance |-> <<>>]

\* datetime.isoformat() / journalctl -o short-iso: date, 'T', time of day.
IsoFormat(t) == <<t \div Day, "T", t % Day>>

\* SQLite's datetime('now', modifier): date, ' ', time of day.
SqlDatetime(t) == <<t \div Day, " ", t % Day>>

\* The order of the two separators as characters: ' ' (0x20) sorts before 'T' (0x54).
CharLess(a, b) == a = " " /\ b = "T"

\* SQLite's `<` on two TEXT values: compared character by character, here field by field.
TextLess(a, b) ==
    \/ a[1] < b[1]
    \/ a[1] = b[1] /\ CharLess(a[2], b[2])
    \/ a[1] = b[1] /\ a[2] = b[2] /\ a[3] < b[3]

\* ------------------------------------------------------------ log source
\* The query without its --since argument: the whole journal.
JournalSince_Unbounded(j, since) == j

\* journalctl --since <since>: the lines stamped at or after `since`, in journal order.
JournalSince(j, since) == SelectSeq(j, LAMBDA l : l.timestamp >= since)

\* One line the game server may write (value: the number a metric line carries).
Line(kind, ts, uuid, name, world, value) ==
    [kind |-> kind, timestamp |-> ts, uuid |-> uuid, name |-> name, world |-> world,
     value |-> value]

\* The line as the journal holds it at position i.
Stored(l, i) ==
    [kind |-> l.kind, timestamp |-> l.timestamp, uuid |-> l.uuid, name |-> l.name,
     world |-> l.world, value |-> l.value, lid |-> i]

JoinLines(T, U, N, W) == {Line("join", t, u, n, w, 0) : t \in T, u \in U, n \in N, w \in W}
LeaveLines(T, U, N) == {Line("leave", t, u, n, NoneText, 0) : t \in T, u \in U, n \in N}
OtherLines(T) == {Line("other", t, NoneText, NoneText, NoneText, 0) : t \in T}
\* "Setting TPS of world <w> to <v>"; "Initial view radius is <v>" / "View radius ... to <v>".
TpsLines(T, V) == {Line("tps", t, NoneText, NoneText, NoneText, v) : t \in T, v \in V}
VrLines(T, V) == {Line("vr", t, NoneText, NoneText, NoneText, v) : t \in T, v \in V}

\* ------------------------------------------------------------ pattern extractor
\* One matched line as the event dictionary parse_player_events builds (lid: the
\* journal position of the line, kept to tell source lines apart).
ParseLine(l) ==
    [timestamp |-> l.timestamp, name |-> l.name,
     world |-> IF l.kind = "join" THEN l.world ELSE NoneText,
     uuid |-> l.uuid, type |-> l.kind, lid |-> l.lid]

parse_player_events(output) ==
    LET matched == SelectSeq(output, LAMBDA l : l.kind \in {"join", "leave"})
    IN  [i \in 1..Len(matched) |-> ParseLine(matched[i])]

\* ------------------------------------------------------------ reconciler
\* INSERT INTO players ... ON CONFLICT(uuid) DO UPDATE (a Join).
JoinUpsert(players, e) ==
    IF e.uuid \in DOMAIN players
    THEN [players EXCEPT ![e.uuid] =
            [@ EXCEPT !.name = e.name, !.online = TRUE,
                      !.last_login = e.timestamp, !.world = e.world]]
    ELSE (e.uuid :> [name |-> e.name, online |-> TRUE, last_login |-> e.timestamp,
                     last_logout |-> None, world |-> e.world]) @@ players

\* The Leave update without `online = 0`.
LeaveUpdate_KeepsOnline(players, e) ==
    IF e.uuid \in DOMAIN players
    THEN [players EXCEPT ![e.uuid] = [@ EXCEPT !.last_logout = e.timestamp]]
    ELSE players

\* The Leave as an upsert, which gives an unknown player a record.
LeaveUpdate_Upsert(players, e) ==
    IF e.uuid \in DOMAIN players
    THEN [players EXCEPT ![e.uuid] = [@ EXCEPT !.online = FALSE, !.last_logout = e.timestamp]]
    ELSE (e.uuid :> [name |-> e.name, online |-> FALSE, last_login |-> None,
                     last_logout |-> e.timestamp, world |-> NoneText]) @@ players

\* UPDATE players SET online = 0, last_logout = ? WHERE uuid = ? (a Leave).
LeaveUpdate(players, e) ==
    IF e.uuid \in DOMAIN players
    THEN [players EXCEPT ![e.uuid] = [@ EXCEPT !.online = FALSE, !.last_logout = e.timestamp]]
    ELSE players

UpdatePlayers(players, e) ==
    IF e.type = "join" THEN JoinUpsert(players, e) ELSE LeaveUpdate(players, e)

\* INSERT INTO player_events: the row mirroring the event.
EventRow(e) ==
    [timestamp |-> e.timestamp, uuid |-> e.uuid, name |-> e.name,
     event_type |-> e.type, world |-> e.world, lid |-> e.lid]

\* The first k statements of the `for event in events` loop: two per event, the
\* players statement and then the player_events insert.
RECURSIVE ExecLoop(_, _, _)
ExecLoop(c, events, k) ==
    IF k = 0 \/ events = <<>> THEN c
    ELSE LET e == Head(events)
             c1 == [c EXCEPT !.players = UpdatePlayers(@, e)]
         IN  IF k = 1 THEN c1
             ELSE ExecLoop([c1 EXCEPT !.player_events = Append(@, EventRow(e))],
                           Tail(events), k - 2)

\* since_ts: the stored checkpoint, or "3 days ago".
SinceTs(c, clk) == IF c.last_event_ts = None THEN clk - 3 * Day ELSE c.last_event_ts

\* The largest timestamp of the batch.
RECURSIVE MaxTs(_)
MaxTs(events) ==
    IF Len(events) = 1 THEN events[1].timestamp
    ELSE LET rest == MaxTs(Tail(events))
         IN  IF events[1].timestamp > rest THEN events[1].timestamp ELSE rest

\* latest_ts as the largest timestamp of the batch instead of its last event's.
LatestTs_Max(events, since_ts) == IF events # <<>> THEN MaxTs(events) ELSE since_ts

\* latest_ts = events[-1]["timestamp"] if events else since_ts
LatestTs(events, since_ts) ==
    IF events # <<>> THEN events[Len(events)].timestamp ELSE since_ts

\* Without the `if not events: return`.
SkipsTick_OnFailureOnly(rc, events) == rc # 0

\* The two early returns: the query failed, or no line was a Join or a Leave.
SkipsTick(rc, events) == rc # 0 \/ events = <<>>

\* The statements of one tick over `events`: the SELECT of the checkpoint, the
\* loop's two per event, the metadata upsert, the commit.
NStmts(events) == 2 * Len(events) + 3

\* The tick with the metadata upsert before the loop instead of after it.
check_player_events_MarkFirst(c, saved, clk, rc, j, done) ==
    LET since == SinceTs(c, clk)
        events == IF rc = 0 THEN parse_player_events(JournalSince(j, since)) ELSE <<>>
        n == Len(events)
        marked == [c EXCEPT !.last_event_ts = LatestTs(events, since)]
        looped == ExecLoop(marked, events,
                           IF done - 2 > 2 * n THEN 2 * n ELSE IF done < 2 THEN 0 ELSE done - 2)
    IN  IF done = 0 THEN
            [conn |-> c, commit |-> FALSE, raised |-> TRUE, outcome |-> "error",
             wrote |-> FALSE, since |-> None, events |-> <<>>]
        ELSE IF SkipsTick(rc, events) THEN
            [conn |-> c, commit |-> FALSE, raised |-> FALSE,
             outcome |-> IF rc # 0 THEN "query_failed" ELSE "no_events",
             wrote |-> FALSE, since |-> since, events |-> events]
        ELSE IF done >= NStmts(events) THEN
            [conn |-> looped, commit |-> TRUE, raised |-> FALSE, outcome |-> "merged",
             wrote |-> TRUE, since |-> since, events |-> events]
        ELSE
            [conn |-> IF done - 2 >= 2 * n THEN saved ELSE IF done >= 2 THEN looped ELSE c,
             commit |-> FALSE, raised |-> TRUE, outcome |-> "error",
             wrote |-> done >= 2 /\ done - 2 < 2 * n, since |-> since, events |-> events]

\* check_player_events(conn): rc and the journal are the log query's answer; `done`
\* is the number of statements that complete (all of them: no storage error), in
\* the order the code executes them: the SELECT of the checkpoint, then for every
\* event the players statement and the player_events insert, the metadata upsert,
\* conn.commit().  `saved` is the committed database.  When the SELECT raises
\* (done = 0) journalctl is not run and nothing is written.  A statement that raises
\* leaves the statements before it pending on the connection; a conn.commit() that
\* raises (disk full, I/O error) makes SQLite roll the whole transaction back to the
\* committed database.  Gives the connection's view, whether it committed, whether
\* it raised, whether the metadata upsert is among the connection's writes.
check_player_events(c, saved, clk, rc, j, done) ==
    LET since == SinceTs(c, clk)
        events == IF rc = 0 THEN parse_player_events(JournalSince(j, since)) ELSE <<>>
        n == Len(events)
        looped == ExecLoop(c, events,
                           IF done - 1 > 2 * n THEN 2 * n ELSE IF done < 1 THEN 0 ELSE done - 1)
        marked == [looped EXCEPT !.last_event_ts = LatestTs(events, since)]
    IN  IF done = 0 THEN
            [conn |-> c, commit |-> FALSE, raised |-> TRUE, outcome |-> "error",
             wrote |-> FALSE, since |-> None, events |-> <<>>]
        ELSE IF SkipsTick(rc, events) THEN
            [conn |-> c, commit |-> FALSE, raised |-> FALSE,
             outcome |-> IF rc # 0 THEN "query_failed" ELSE "no_events",
             wrote |-> FALSE, since |-> since, events |-> events]
        ELSE IF done >= NStmts(events) THEN
            [conn |-> marked, commit |-> TRUE, raised |-> FALSE, outcome |-> "merged",
             wrote |-> TRUE, since |-> since, events |-> events]
        ELSE
            [conn |-> IF done - 1 > 2 * n THEN saved ELSE looped,
             commit |-> FALSE, raised |-> TRUE, outcome |-> "error",
             wrote |-> FALSE, since |-> since, events |-> events]

\* ------------------------------------------------------------ startup backfill
\* The dictionary when the else branch does not clear `online`.
RECURSIVE SyncFold_LeaveKeepsOnline(_, _)
SyncFold_LeaveKeepsOnline(players, events) ==
    IF events = <<>> THEN players
    ELSE LET e == Head(events)
             p0 == IF e.uuid \in DOMAIN players THEN players[e.uuid]
                   ELSE [name |-> e.name, online |-> FALSE, last_login |-> None,
                         last_logout |-> None, world |-> NoneText]
             p1 == IF e.type = "join"
                   THEN [p0 EXCEPT !.online = TRUE, !.last_login = e.timestamp,
                                   !.world = e.world, !.name = e.name]
                   ELSE [p0 EXCEPT !.last_logout = e.timestamp]
         IN  SyncFold_LeaveKeepsOnline((e.uuid :> p1) @@ players, Tail(events))

\* The `players` dictionary initial_player_sync builds from the window's events.
RECURSIVE SyncFold(_, _)
SyncFold(players, events) ==
    IF events = <<>> THEN players
    ELSE LET e == Head(events)
             p0 == IF e.uuid \in DOMAIN players THEN players[e.uuid]
                   ELSE [name |-> e.name, online |-> FALSE, last_login |-> None,
                         last_logout |-> None, world |-> NoneText]
             p1 == IF e.type = "join"
                   THEN [p0 EXCEPT !.online = TRUE, !.last_login = e.timestamp,
                                   !.world = e.world, !.name = e.name]
                   ELSE [p0 EXCEPT !.online = FALSE, !.last_logout = e.timestamp]
         IN  SyncFold((e.uuid :> p1) @@ players, Tail(events))

\* COALESCE(excluded.x, players.x)
Coalesce(x, y, null) == IF x # null THEN x ELSE y

\* INSERT INTO players ... ON CONFLICT(uuid) DO UPDATE of the backfill, for every
\* player of the dictionary.
SyncUpsert(players, built) ==
    [u \in DOMAIN players \cup DOMAIN built |->
        IF u \notin DOMAIN built THEN players[u]
        ELSE IF u \notin DOMAIN players THEN built[u]
        ELSE [name |-> built[u].name,
              online |-> built[u].online,
              last_login |-> Coalesce(built[u].last_login, players[u].last_login, None),
              last_logout |-> Coalesce(built[u].last_logout, players[u].last_logout, None),
              world |-> Coalesce(built[u].world, players[u].world, NoneText)]]

\* initial_player_sync(conn): the 7-day window, merged and committed; nothing on a
\* failed query.
initial_player_sync(c, clk, rc, j) ==
    LET since == clk - 7 * Day
        events == IF rc = 0 THEN parse_player_events(JournalSince(j, since)) ELSE <<>>
    IN  IF rc # 0 THEN
            [conn |-> c, commit |-> FALSE, raised |-> FALSE, outcome |-> "query_failed",
             since |-> since, events |-> events]
        ELSE
            [conn |-> [c EXCEPT !.players = SyncUpsert(@, SyncFold(<<>>, events))],
             commit |-> TRUE, raised |-> FALSE, outcome |-> "synced",
             since |-> since, events |-> events]

\* ------------------------------------------------------------ metric sampler
\* journalctl -n200
TailLines == 200
LastN(j, n) == IF Len(j) <= n THEN j ELSE SubSeq(j, Len(j) - n + 1, Len(j))

\* The scan in journal order (without reversed()): the value of the oldest line.
RECURSIVE OldestValue(_, _)
OldestValue(lines, kind) ==
    IF lines = <<>> THEN None
    ELSE IF Head(lines).kind = kind THEN Head(lines).value
    ELSE OldestValue(Tail(lines), kind)

\* for line in reversed(output.splitlines()): the value of the newest line of `kind`.
RECURSIVE NewestValue(_, _)
NewestValue(lines, kind) ==
    IF lines = <<>> THEN None
    ELSE IF lines[Len(lines)].kind = kind THEN lines[Len(lines)].value
    ELSE NewestValue(SubSeq(lines, 1, Len(lines) - 1), kind)

\* What the probe's commands answer: the MainPID systemd shows, the java child
\* pgrep -P finds, the process pgrep -f finds (NoPid: a failed command, no output,
\* "0"), then the return code of ps and the columns of its output.
NoPid == 0
NotNumber == -2

\* No process: the service has no main PID.
NotFound == [main |-> NoPid, child |-> NoPid, jar |-> NoPid, rc |-> 0, parts |-> <<>>]

\* get_java_pid(): the child of the wrapper, else the HytaleServer.jar process.
get_java_pid(probe) ==
    IF probe.main = NoPid THEN NoPid
    ELSE IF probe.child # NoPid THEN probe.child
    ELSE probe.jar

\* float(parts[i]) / int(parts[i]) succeeds: the column is there and is a number.
Parses(parts, i) == i <= Len(parts) /\ parts[i] # NotNumber

\* int(parts[2]) / 1024 is a true division, its result a fraction of a megabyte.
\* ram_mb is kept as the exact count of 1/RamUnit MB: 1000 KB, the code's
\* 0.9765625 MB, is 1000; 2048 KB, the code's 2.0 MB, is 2048.
RamUnit == 1024
KbToMb(kb) == (kb * RamUnit) \div 1024

\* collect_performance with `result` initialised to zeros instead of None.
collect_performance_Zeros(rc, j, probe) ==
    LET ok == get_java_pid(probe) # NoPid /\ probe.rc = 0 /\ probe.parts # <<>>
        parts == probe.parts
        cpu == ok /\ Parses(parts, 1)
        mem == cpu /\ Parses(parts, 2)
        rss == mem /\ Parses(parts, 3)
        tps == IF rc = 0 THEN NewestValue(LastN(j, TailLines), "tps") ELSE None
        vr == IF rc = 0 THEN NewestValue(LastN(j, TailLines), "vr") ELSE None
    IN  [tps |-> IF tps = None THEN 0 ELSE tps,
         view_radius |-> IF vr = None THEN 0 ELSE vr,
         cpu_percent |-> IF cpu THEN parts[1] ELSE 0,
         ram_percent |-> IF mem THEN parts[2] ELSE 0,
         ram_mb |-> IF rss THEN KbToMb(parts[3]) ELSE 0]

\* collect_performance(): rc and the journal are the log query's answer, probe is
\* what get_java_pid's commands and ps give.  The three assignments stop at the
\* first column that is missing or not a number (ValueError, IndexError: pass).
collect_performance(rc, j, probe) ==
    LET ok == get_java_pid(probe) # NoPid /\ probe.rc = 0 /\ probe.parts # <<>>
        parts == probe.parts
        cpu == ok /\ Parses(parts, 1)
        mem == cpu /\ Parses(parts, 2)
        rss == mem /\ Parses(parts, 3)
    IN  [tps |-> IF rc = 0 THEN NewestValue(LastN(j, TailLines), "tps") ELSE None,
         view_radius |-> IF rc = 0 THEN NewestValue(LastN(j, TailLines), "vr") ELSE None,
         cpu_percent |-> IF cpu THEN parts[1] ELSE None,
         ram_percent |-> IF mem THEN parts[2] ELSE None,
         ram_mb |-> IF rss THEN KbToMb(parts[3]) ELSE None]

\* get_online_player_count(conn)
get_online_player_count(c) == Cardinality({u \in DOMAIN c.players : c.players[u].online})

\* save_performance(conn, perf): one row appended (the caller commits).
save_performance(c, perf, clk) ==
    [c EXCEPT !.performance = Append(@,
        [timestamp |-> clk, tps |-> perf.tps, cpu_percent |-> perf.cpu_percent,
         ram_mb |-> perf.ram_mb, ram_percent |-> perf.ram_percent,
         view_radius |-> perf.view_radius,
         players_online |-> get_online_player_count(c)])]

\* ------------------------------------------------------------ retention pruner
\* WHERE timestamp < datetime('now', '-<age>'): the rows that stay.
KeepYounger(rows, clk, age) ==
    SelectSeq(rows, LAMBDA r : ~TextLess(IsoFormat(r.timestamp), SqlDatetime(clk - age)))

\* cleanup_old_data(conn): both deletes, the commit when something was deleted, the
\* wal_checkpoint pragma.  The pragma is executed on every call.  The deletes have
\* opened a transaction, deleting rows or not, and only the commit ends it: when
\* nothing was deleted the pragma runs inside that transaction and raises
\* sqlite3.OperationalError (database table is locked); no checkpoint is done.
cleanup_old_data(c, clk) ==
    LET perf == KeepYounger(c.performance, clk, PERF_RETENTION_HOURS * Hour)
        events == KeepYounger(c.player_events, clk, 7 * Day)
        deleted_perf == Len(c.performance) - Len(perf)
        deleted_events == Len(c.player_events) - Len(events)
    IN  [conn |-> [c EXCEPT !.performance = perf, !.player_events = events],
         commit |-> deleted_perf > 0 \/ deleted_events > 0,
         deleted_perf |-> deleted_perf, deleted_events |-> deleted_events,
         pragma |-> TRUE,
         checkpointed |-> deleted_perf > 0 \/ deleted_events > 0,
         raised |-> ~(deleted_perf > 0 \/ deleted_events > 0)]

\* ------------------------------------------------------------ the worker
\* The last backfill or ingestion tick and what it was given; marked: the batch of
\* the last tick whose metadata upsert stayed among the connection's writes.
NoTick ==
    [kind |-> "none", rc |-> 0, outcome |-> "none", since |-> 0, events |-> <<>>,
     marked |-> <<>>]
\* What an iteration of the loop did: the tasks due at its top, those it ran, those
\* that raised, and those it ran although the flag was cleared before they began.
NoIter == [due |-> {}, ran |-> {}, raised |-> {}, late |-> {}]
NoHarness == [input |-> <<>>, start |-> <<>>, store |-> EmptyDb, pos |-> 0]

\* The database file main() finds: none (init_db creates the empty tables), or the
\* one an earlier run of the worker left, here with a sample of two days ago.
InitDbs ==
    {EmptyDb,
     [EmptyDb EXCEPT !.performance =
        <<[timestamp |-> StartClock - 2 * Day, tps |-> None, cpu_percent |-> None,
           ram_mb |-> None, ram_percent |-> None, view_radius |-> None,
           players_online |-> 0]>>]}

Init ==
    /\ pc = "starting"
    /\ running = TRUE
    /\ clock = StartClock
    /\ now = 0
    /\ last_perf = 0
    /\ last_player = 0
    /\ last_cleanup = 0
    /\ journal = <<>>
    /\ db \in InitDbs
    /\ disk = db
    /\ iter = NoIter
    /\ tick = NoTick
    /\ iters = 0
    /\ slow = 0
    /\ h = NoHarness

\* A task waits `wait` seconds for its commands.
Waited(wait) ==
    /\ wait = 0 \/ slow < MaxSlow
    /\ clock' = clock + wait
    /\ slow' = IF wait = 0 THEN slow ELSE slow + 1

\* The game server writes one line to its journal, wherever main() is.  A task is
\* one step here, so a line written while a task runs is a line written before it
\* or after it.
AppendLine(l) ==
    /\ Len(journal) < MaxLines
    /\ journal' = Append(journal, Stored(l, Len(journal) + 1))
    /\ UNCHANGED <<h, slow, pc, running, clock, now, last_perf, last_player, last_cleanup,
                   db, disk, iter, tick, iters>>

\* signal_handler: SIGTERM or SIGINT clears the flag, wherever main() is.
Signal ==
    /\ pc # "stopped"
    /\ running
    /\ running' = FALSE
    /\ UNCHANGED <<h, slow, pc, clock, now, last_perf, last_player, last_cleanup,
                   journal, db, disk, iter, tick, iters>>

\* main() up to the loop: init_db, connect, initial_player_sync, the three timers.
\* The journalctl of initial_player_sync takes `wait` seconds.
Start(rc, wait) ==
    /\ pc = "starting"
    /\ LET r == initial_player_sync(db, clock, rc, journal)
       IN  /\ db' = r.conn
           /\ disk' = IF r.commit THEN r.conn ELSE disk
           /\ tick' = [kind |-> "backfill", rc |-> rc, outcome |-> r.outcome, since |-> r.since,
                       events |-> r.events, marked |-> tick.marked]
    /\ Waited(wait)
    /\ last_perf' = 0
    /\ last_player' = 0
    /\ last_cleanup' = 0
    /\ pc' = "top"
    /\ UNCHANGED <<h, running, now, journal, iter, iters>>

\* init_db, the connection's pragmas or initial_player_sync raise (a storage
\* error).  They stand before the loop's try: the exception leaves main(), the
\* process ends with nothing committed, without conn.close() and with the flag as
\* it was.
StartRaise(wait) ==
    /\ pc = "starting"
    /\ db' = disk
    /\ tick' = [kind |-> "backfill", rc |-> 0, outcome |-> "error", since |-> clock - 7 * Day,
                events |-> <<>>, marked |-> tick.marked]
    /\ Waited(wait)
    /\ pc' = "stopped"
    /\ UNCHANGED <<h, running, now, last_perf, last_player, last_cleanup,
                   journal, disk, iter, iters>>

\* Which tasks the interval checks of an iteration starting at time t let run.
DueTasks(t) ==
    {x \in {"perf", "player", "cleanup"} :
        \/ x = "perf" /\ t - last_perf >= PERF_INTERVAL
        \/ x = "player" /\ t - last_player >= PLAYER_INTERVAL
        \/ x = "cleanup" /\ t - last_cleanup >= CLEANUP_INTERVAL}

\* The loop as `while True`: the flag is not polled.
LoopEnter_NoPoll ==
    /\ pc = "top"
    /\ now' = clock
    /\ iter' = [due |-> DueTasks(clock), ran |-> {}, raised |-> {}, late |-> {}]
    /\ pc' = "perf"
    /\ UNCHANGED <<h, slow, running, clock, last_perf, last_player, last_cleanup,
                   journal, db, disk, tick, iters>>

\* while running: now = time.time()
LoopEnter ==
    /\ pc = "top"
    /\ running
    /\ now' = clock
    /\ iter' = [due |-> DueTasks(clock), ran |-> {}, raised |-> {}, late |-> {}]
    /\ pc' = "perf"
    /\ UNCHANGED <<h, slow, running, clock, last_perf, last_player, last_cleanup,
                   journal, db, disk, tick, iters>>

\* The loop ends: conn.close() drops what was not committed, and the process exits.
Shutdown ==
    /\ pc = "top"
    /\ ~running
    /\ db' = disk
    /\ now' = 0
    /\ last_perf' = 0
    /\ last_player' = 0
    /\ last_cleanup' = 0
    /\ iter' = NoIter
    /\ pc' = "stopped"
    /\ UNCHANGED <<h, slow, running, clock, journal, disk, tick, iters>>

\* if now - last_perf >= PERF_INTERVAL: collect_performance, save_performance
\* (the insert, then conn.commit()), last_perf = now.  The commands of
\* collect_performance take `wait` seconds: the row carries the time of the insert,
\* the timer the iteration's `now`.
PerfRun(rc, probe, wait) ==
    /\ pc = "perf"
    /\ now - last_perf >= PERF_INTERVAL
    /\ Waited(wait)
    /\ db' = save_performance(db, collect_performance(rc, journal, probe), clock + wait)
    /\ disk' = db'
    /\ last_perf' = now
    /\ iter' = [iter EXCEPT !.ran = @ \cup {"perf"},
                            !.late = IF running THEN @ ELSE @ \cup {"perf"}]
    /\ pc' = "player"
    /\ UNCHANGED <<h, running, now, last_player, last_cleanup, journal, tick, iters>>

\* save_performance raises (a storage error): the except clause of the loop, then
\* the sleep.  done = 0: the INSERT raises and the connection is as it was;
\* done = 1: conn.commit() raises and SQLite rolls the transaction back, the row
\* and whatever an earlier task left pending.
PerfRaise(done, wait) ==
    /\ pc = "perf"
    /\ now - last_perf >= PERF_INTERVAL
    /\ Waited(wait)
    /\ db' = IF done = 0 THEN db ELSE disk
    /\ iter' = [iter EXCEPT !.ran = @ \cup {"perf"}, !.raised = @ \cup {"perf"},
                            !.late = IF running THEN @ ELSE @ \cup {"perf"}]
    /\ pc' = "sleep"
    /\ UNCHANGED <<h, running, now, last_perf, last_player, last_cleanup,
                   journal, disk, tick, iters>>

PerfSkip ==
    /\ pc = "perf"
    /\ ~(now - last_perf >= PERF_INTERVAL)
    /\ pc' = "player"
    /\ UNCHANGED <<h, slow, running, clock, now, last_perf, last_player, last_cleanup,
                   journal, db, disk, iter, tick, iters>>

\* if now - last_player >= PLAYER_INTERVAL: check_player_events, last_player = now;
\* a storage error (at the tick's SELECT, before the log query and both early
\* returns, or at a later statement) leaves through the except clause to the sleep,
\* the timer not reset.  The journalctl of the tick takes `wait` seconds.
PlayerRun(rc, done, wait) ==
    /\ pc = "player"
    /\ now - last_player >= PLAYER_INTERVAL
    /\ Waited(wait)
    /\ LET r == check_player_events(db, disk, clock, rc, journal, done)
       IN  /\ done <= NStmts(r.events)
           /\ db' = r.conn
           /\ disk' = IF r.commit THEN r.conn ELSE disk
           /\ tick' = [kind |-> "tick", rc |-> rc, outcome |-> r.outcome, since |-> r.since,
                       events |-> r.events,
                       marked |-> IF r.wrote THEN r.events ELSE tick.marked]
           /\ last_player' = IF r.raised THEN last_player ELSE now
           /\ iter' = [iter EXCEPT !.ran = @ \cup {"player"},
                                   !.raised = IF r.raised THEN @ \cup {"player"} ELSE @,
                                   !.late = IF running THEN @ ELSE @ \cup {"player"}]
           /\ pc' = IF r.raised THEN "sleep" ELSE "cleanup"
    /\ UNCHANGED <<h, running, now, last_perf, last_cleanup, journal, iters>>

PlayerSkip ==
    /\ pc = "player"
    /\ ~(now - last_player >= PLAYER_INTERVAL)
    /\ pc' = "cleanup"
    /\ UNCHANGED <<h, slow, running, clock, now, last_perf, last_player, last_cleanup,
                   journal, db, disk, iter, tick, iters>>

\* if now - last_cleanup >= CLEANUP_INTERVAL: cleanup_old_data, last_cleanup = now;
\* when cleanup_old_data raises, the except clause: the timer is not reset.
CleanupRun ==
    /\ pc = "cleanup"
    /\ now - last_cleanup >= CLEANUP_INTERVAL
    /\ LET r == cleanup_old_data(db, clock)
       IN  /\ db' = r.conn
           /\ disk' = IF r.commit THEN r.conn ELSE disk
           /\ last_cleanup' = IF r.raised THEN last_cleanup ELSE now
           /\ iter' = [iter EXCEPT !.ran = @ \cup {"cleanup"},
                                   !.raised = IF r.raised THEN @ \cup {"cleanup"} ELSE @,
                                   !.late = IF running THEN @ ELSE @ \cup {"cleanup"}]
    /\ pc' = "sleep"
    /\ UNCHANGED <<h, slow, running, clock, now, last_perf, last_player, journal, tick,
                   iters>>

\* cleanup_old_data raises a storage error: at the first DELETE (done = 0), at the
\* second (done = 1, the first one's deletions pending), at the conn.commit() of a
\* tick that deleted (done = 2), which SQLite rolls back, or at the pragma after
\* that commit (done = 3): the deletions are durable then.  In each case the except
\* clause: the timer is not reset.
CleanupRaise(done) ==
    /\ pc = "cleanup"
    /\ now - last_cleanup >= CLEANUP_INTERVAL
    /\ LET r == cleanup_old_data(db, clock)
       IN  /\ done >= 2 => r.commit
           /\ db' = IF done = 0 THEN db
                    ELSE IF done = 1 THEN [db EXCEPT !.performance = r.conn.performance]
                    ELSE IF done = 2 THEN disk
                    ELSE r.conn
           /\ disk' = IF done = 3 THEN r.conn ELSE disk
    /\ iter' = [iter EXCEPT !.ran = @ \cup {"cleanup"}, !.raised = @ \cup {"cleanup"},
                            !.late = IF running THEN @ ELSE @ \cup {"cleanup"}]
    /\ pc' = "sleep"
    /\ UNCHANGED <<h, slow, running, clock, now, last_perf, last_player, last_cleanup,
                   journal, tick, iters>>

CleanupSkip ==
    /\ pc = "cleanup"
    /\ ~(now - last_cleanup >= CLEANUP_INTERVAL)
    /\ pc' = "sleep"
    /\ UNCHANGED <<h, slow, running, clock, now, last_perf, last_player, last_cleanup,
                   journal, db, disk, iter, tick, iters>>

\* time.sleep(1), and whatever longer the process is kept from running: d seconds.
\* MaxIters bounds the sleeps taken with the flag set; the sleep of the iteration a
\* signal came in (one second, then the loop ends) is taken beyond it, once in a run
\* of the model.
Sleep(d) ==
    /\ pc = "sleep"
    /\ iters < MaxIters \/ (~running /\ iters = MaxIters /\ d = 1)
    /\ iters' = iters + 1
    /\ clock' = clock + d
    /\ pc' = "top"
    /\ UNCHANGED <<h, slow, running, now, last_perf, last_player, last_cleanup,
                   journal, db, disk, iter, tick>>

\* The service manager starts the worker again: a new process, the same database
\* (while the run of the model has not taken its last sleep).
Restart ==
    /\ pc = "stopped"
    /\ iters <= MaxIters
    /\ running' = TRUE
    /\ pc' = "starting"
    /\ UNCHANGED <<h, slow, clock, now, last_perf, last_player, last_cleanup, journal, db, disk,
                   iter, tick, iters>>

\* ------------------------------------------------------------ the worker's runs
\* Timestamps the journal's lines carry: one before the 3-day lookback (inside the
\* 7-day backfill window), and two inside it.
OldStamp == StartClock - 5 * Day
SpecStamps == {StartClock - 2, StartClock - 1}
SpecLines ==
    JoinLines({OldStamp, StartClock - 1}, {"u1"}, {"Alice"}, {"Overworld"})
        \cup LeaveLines({StartClock - 2}, {"u1"}, {"Alice"})
        \cup OtherLines({StartClock - 1})
SpecSleeps == {1, 10}
\* Seconds a task waits for its commands (journalctl, pgrep, ps).
Waits == {0, 2}

Next ==
    \/ \E l \in SpecLines : AppendLine(l)
    \/ Signal
    \/ \E rc \in {0, 1}, wait \in Waits : Start(rc, wait)
    \/ \E wait \in Waits : StartRaise(wait)
    \/ LoopEnter
    \/ Shutdown
    \/ \E wait \in Waits : PerfRun(0, NotFound, wait)
    \/ \E done \in {0, 1}, wait \in Waits : PerfRaise(done, wait)
    \/ PerfSkip
    \/ \E rc \in {0, 1}, done \in 0..(2 * MaxLines + 3), wait \in Waits :
          PlayerRun(rc, done, wait)
    \/ PlayerSkip
    \/ CleanupRun
    \/ \E done \in 0..3 : CleanupRaise(done)
    \/ CleanupSkip
    \/ \E d \in SpecSleeps : Sleep(d)
    \/ Restart

Spec == Init /\ [][Next]_vars

\* ------------------------------------------------------------ one process, to its exit
\* The worker to its exit.  Every step of main() that can be taken is taken in the
\* end (every task terminates); signals, journal lines and the service manager's
\* restart of a stopped worker come or do not.  A restart comes only while the
\* run of the model has a sleep left for the new process.
StopLines == JoinLines({StartClock - 1}, {"u1"}, {"Alice"}, {"Overworld"})

WorkerStep ==
    \/ \E rc \in {0, 1}, wait \in Waits : Start(rc, wait)
    \/ \E wait \in Waits : StartRaise(wait)
    \/ LoopEnter
    \/ Shutdown
    \/ \E wait \in Waits : PerfRun(0, NotFound, wait)
    \/ \E done \in {0, 1}, wait \in Waits : PerfRaise(done, wait)
    \/ PerfSkip
    \/ \E rc \in {0, 1}, done \in 0..(2 * MaxLines + 3), wait \in Waits :
          PlayerRun(rc, done, wait)
    \/ PlayerSkip
    \/ CleanupRun
    \/ \E done \in 0..3 : CleanupRaise(done)
    \/ CleanupSkip
    \/ \E d \in SpecSleeps : Sleep(d)

NextStop ==
    \/ \E l \in StopLines : AppendLine(l)
    \/ Signal
    \/ WorkerStep
    \/ iters < MaxIters /\ Restart

SpecStop == Init /\ [][NextStop]_vars /\ WF_vars(WorkerStep)

\* ------------------------------------------------------------ the reconciler alone
\* Ingestion ticks over a journal that receives a given sequence of Join/Leave
\* lines, a few at a time, and over a given set of PlayerRecords.  Every tick reads
\* the stored checkpoint and queries the journal from it, as the loop's ticks do.
\* MaxBatch: the lines of the sequence.
MaxBatch == 3

HStamps == {StartClock - 3, StartClock - 2, StartClock - 1}
\* The display name and the world a line carries go with its timestamp.
HName(t) == IF t = StartClock - 3 THEN "Alice" ELSE IF t = StartClock - 2 THEN "Alicia" ELSE "Ali"
HWorld(t) == IF t = StartClock - 3 THEN "Overworld" ELSE IF t = StartClock - 2 THEN "Nether" ELSE "End"
HLines ==
    {Line("join", t, "u1", HName(t), HWorld(t), 0) : t \in HStamps}
        \cup {Line("leave", t, "u1", HName(t), NoneText, 0) : t \in HStamps}
        \cup {Line("join", StartClock - 3, "u2", "Bob", "Overworld", 0),
              Line("leave", StartClock - 2, "u2", "Bob", NoneText, 0)}
HBatches == UNION {[1..n -> HLines] : n \in 1..MaxBatch}

\* PlayerRecords the store may hold before the batch: as a Join, and a Join and a
\* Leave, of an earlier day leave them.
WasOnline ==
    [name |-> "Al", online |-> TRUE, last_login |-> StartClock - Day,
     last_logout |-> None, world |-> "Overworld"]
WasOffline ==
    [name |-> "Al", online |-> FALSE, last_login |-> StartClock - Day,
     last_logout |-> StartClock - Day + 1, world |-> "Overworld"]
HStarts ==
    {<<>>, "u1" :> WasOnline, "u1" :> WasOffline, "u2" :> WasOnline,
     ("u1" :> WasOnline) @@ ("u2" :> WasOnline), ("u1" :> WasOffline) @@ ("u2" :> WasOnline)}

InitMerge ==
    /\ pc = "starting"
    /\ running = TRUE
    /\ clock = StartClock
    /\ now = 0
    /\ last_perf = 0
    /\ last_player = 0
    /\ last_cleanup = 0
    /\ journal = <<>>
    /\ db = EmptyDb
    /\ disk = EmptyDb
    /\ iter = NoIter
    /\ tick = NoTick
    /\ iters = 0
    /\ slow = 0
    /\ \E b \in HBatches, s \in HStarts :
          h = [input |-> [i \in 1..Len(b) |-> Stored(b[i], i)], start |-> s,
               store |-> [EmptyDb EXCEPT !.players = s], pos |-> 0, read |-> 0,
               ticks |-> 0, again |-> FALSE, batch |-> <<>>,
               synced |-> FALSE, sync |-> <<>>]

\* The journal so far: the lines of the input the game server has written.
HJournal == SubSeq(h.input, 1, h.pos)

\* The game server writes the next k lines of the input.
MergeWrite(k) ==
    /\ h.pos + k <= Len(h.input)
    /\ h' = [h EXCEPT !.pos = h.pos + k]
    /\ UNCHANGED wvars

\* One ingestion tick in which no statement fails: check_player_events on the
\* store, over the journal so far.  A tick runs when the journal has received lines
\* since the last one, and once in a run of the model when it has not (h.again).
MergeTick ==
    /\ h.read < h.pos \/ (h.ticks >= 1 /\ ~h.again)
    /\ LET r == check_player_events(h.store, h.store, clock, 0, HJournal, 2 * MaxBatch + 3)
       IN  h' = [h EXCEPT !.store = r.conn, !.read = h.pos, !.ticks = h.ticks + 1,
                          !.again = h.again \/ h.read = h.pos, !.batch = r.events]
    /\ UNCHANGED wvars

\* The startup backfill over the same lines and the same starting PlayerRecords
\* (its 7-day window holds them all).
MergeSync ==
    /\ h.pos = Len(h.input)
    /\ ~h.synced
    /\ h' = [h EXCEPT !.synced = TRUE,
                      !.sync = initial_player_sync([EmptyDb EXCEPT !.players = h.start], clock,
                                                   0, h.input).conn.players]
    /\ UNCHANGED wvars

NextMerge ==
    \/ \E k \in 1..MaxBatch : MergeWrite(k)
    \/ MergeTick
    \/ MergeSync

SpecMerge == InitMerge /\ [][NextMerge]_vars

\* ------------------------------------------------------------ the sampler and the pruner
\* The metric tick and the cleanup tick on one store, at the times the loop may
\* reach them after sleeps and stalls of any length: h.store is the database,
\* h.clk the time, h.lines the journal, h.op the last tick and what it was given.
StoreLines ==
    TpsLines({StartClock}, {18, 20}) \cup VrLines({StartClock}, {8}) \cup OtherLines({StartClock})

\* ps finds the process idle with 2 MB; ps fails; ps finds it with 1000 KB (less
\* than a megabyte); ps prints one column only.
StoreProbes ==
    {NotFound,
     [main |-> 7, child |-> 8, jar |-> NoPid, rc |-> 0, parts |-> <<0, 3, 2048>>],
     [main |-> 7, child |-> NoPid, jar |-> 9, rc |-> 1, parts |-> <<>>],
     [main |-> 7, child |-> NoPid, jar |-> 9, rc |-> 0, parts |-> <<5, 3, 1000>>],
     [main |-> 7, child |-> 8, jar |-> NoPid, rc |-> 0, parts |-> <<5>>]}

\* Stalls: less than the retention period, and more than it by a quarter of a day
\* and by a day.
StoreGaps == {Hour, 6 * Hour, 30 * Hour, 48 * Hour}

\* Event Log rows of about a week ago, as an earlier tick wrote them.
OldRows ==
    {<<>>,
     <<EventRow(ParseLine(Stored(Line("join", StartClock - 6 * Day - 1, "u1", "Al", "Overworld", 0), 1)))>>}

\* PlayerRecords of the store: none online, one of one, two of two.
StoreStarts == {<<>>, "u1" :> WasOnline, ("u1" :> WasOnline) @@ ("u2" :> WasOnline)}

NoOp == [kind |-> "none", at |-> 0]

InitStore ==
    /\ pc = "starting"
    /\ running = TRUE
    /\ clock = StartClock
    /\ now = 0
    /\ last_perf = 0
    /\ last_player = 0
    /\ last_cleanup = 0
    /\ journal = <<>>
    /\ db = EmptyDb
    /\ disk = EmptyDb
    /\ iter = NoIter
    /\ tick = NoTick
    /\ iters = 0
    /\ slow = 0
    /\ \E s \in StoreStarts, rows \in OldRows :
          h = [store |-> [EmptyDb EXCEPT !.players = s, !.player_events = rows],
               clk |-> StartClock, lines |-> <<>>, passes |-> 0, op |-> NoOp]

\* The game server writes a line.
StoreLine(l) ==
    /\ Len(h.lines) < MaxLines
    /\ h' = [h EXCEPT !.lines = Append(@, Stored(l, Len(@) + 1))]
    /\ UNCHANGED wvars

\* Time passes.
StorePass(d) ==
    /\ h.passes < MaxIters
    /\ h' = [h EXCEPT !.clk = @ + d, !.passes = @ + 1]
    /\ UNCHANGED wvars

\* The metric tick: collect_performance, save_performance (one per loop iteration).
StoreSample(rc, probe) ==
    /\ h.op.kind = "none" \/ h.op.at < h.clk
    /\ h' = [h EXCEPT !.store = save_performance(@, collect_performance(rc, h.lines, probe),
                                                 h.clk),
                      !.op = [kind |-> "sample", at |-> h.clk, rc |-> rc, probe |-> probe]]
    /\ UNCHANGED wvars

\* The cleanup tick: cleanup_old_data (it follows the iteration's metric tick).
StorePrune ==
    /\ h.op.kind = "sample"
    /\ h.op.at = h.clk
    /\ LET r == cleanup_old_data(h.store, h.clk)
       IN  h' = [h EXCEPT !.store = r.conn,
                          !.op = [kind |-> "prune", at |-> h.clk, commit |-> r.commit,
                                  deleted_perf |-> r.deleted_perf,
                                  deleted_events |-> r.deleted_events,
                                  pragma |-> r.pragma, checkpointed |-> r.checkpointed,
                                  raised |-> r.raised]]
    /\ UNCHANGED wvars

\* Metric ticks over what the journal and the probe may answer.
NextSample ==
    \/ \E l \in StoreLines : StoreLine(l)
    \/ StorePass(6 * Hour)
    \/ \E rc \in {0, 1}, probe \in StoreProbes : StoreSample(rc, probe)

SpecSample == InitStore /\ [][NextSample]_vars

\* Metric ticks and cleanup ticks after stalls.
NextPrune ==
    \/ \E d \in StoreGaps : StorePass(d)
    \/ \E rc \in {0, 1} : StoreSample(rc, NotFound)
    \/ StorePrune

SpecPrune == InitStore /\ [][NextPrune]_vars

\* ------------------------------------------------------------ properties
\* The last step of the worker was an ingestion tick that ran to its commit.
JustMerged == pc = "cleanup" /\ "player" \in iter.ran /\ tick.kind = "tick" /\ tick.outcome = "merged"

\* This step is an ingestion tick (check_player_events was called in it).
TickStep == pc = "player" /\ "player" \in iter'.ran

\* The source lines (journal positions) the rows of an Event Log come from.
Lids(rows) == {rows[k].lid : k \in 1..Len(rows)}

\* C1: an exception raised by one task does not keep the other due tasks from
\* running: when an iteration of the loop reaches its sleep, every task whose
\* interval had elapsed at the top of the iteration has been run in it.
C1_DueTasksRun == pc = "sleep" => iter.due \subseteq iter.ran

\* C2: no log event is reprocessed: the committed Event Log holds at most one row
\* per source line.
C2_AtMostOnce ==
    \A a, b \in 1..Len(disk.player_events) :
        disk.player_events[a].lid = disk.player_events[b].lid => a = b

\* C3: no event is lost: when an ingestion tick has merged its batch, every
\* Join/Leave line that the journal held inside the 3-day lookback window when the
\* tick queried it has its Event Log row, written by this tick or by an earlier
\* one.  (Lines written after the query are not looked at.  A tick without a stored
\* checkpoint reads the whole window, and one with a checkpoint reads every line
\* stamped at or after it: a line without its row after the tick is stamped before
\* the checkpoint, which never moves back (C6), so no later tick reads it.)
C3_NoEventLost ==
    [][(TickStep /\ tick'.outcome = "merged") =>
          \A i \in 1..Len(journal) :
              (journal[i].kind \in {"join", "leave"} /\ journal[i].timestamp >= clock - 3 * Day)
                  => i \in Lids(db'.player_events)]_vars

\* A line that a merged tick leaves without its row is stamped before the
\* checkpoint the tick started from.
C3_OnlyBeforeCheckpoint ==
    [][(TickStep /\ tick'.outcome = "merged") =>
          \A i \in 1..Len(journal) :
              (/\ journal[i].kind \in {"join", "leave"}
               /\ journal[i].timestamp >= clock - 3 * Day
               /\ i \notin Lids(db'.player_events))
                  => (db.last_event_ts # None /\ journal[i].timestamp < db.last_event_ts)]_vars

\* C5: checkpoint safety: an ingestion tick that merges a non-empty batch leaves the
\* checkpoint, in the connection and committed, at the timestamp of the batch's last
\* event in source-line order; and a tick that merges the batch the previous tick
\* merged leaves the checkpoint's value as it was.
C5_CheckpointIsLastEvent ==
    [][(TickStep /\ tick'.outcome = "merged") =>
          /\ tick'.events # <<>>
          /\ db'.last_event_ts = tick'.events[Len(tick'.events)].timestamp
          /\ disk'.last_event_ts = db'.last_event_ts
          /\ (tick.kind = "tick" /\ tick.outcome = "merged" /\ tick'.events = tick.events)
                => (db'.last_event_ts = db.last_event_ts
                    /\ disk'.last_event_ts = disk.last_event_ts)]_vars

\* A tick has just merged a batch whose last event does not carry the batch's
\* largest timestamp.
C5_Witness ==
    /\ JustMerged
    /\ \E i \in 1..Len(tick.events) : tick.events[i].timestamp > db.last_event_ts
    /\ db.last_event_ts = tick.events[Len(tick.events)].timestamp

\* C6: the checkpoint is monotonic: the committed checkpoint never moves to an
\* earlier timestamp and is never unset, and neither does the one the running
\* process reads.
C6_CheckpointMonotonic ==
    [][/\ disk.last_event_ts # None =>
            (disk'.last_event_ts # None /\ disk'.last_event_ts >= disk.last_event_ts)
       /\ (db.last_event_ts # None /\ pc' # "stopped") =>
            (db'.last_event_ts # None /\ db'.last_event_ts >= db.last_event_ts)]_vars

\* A tick that started from a stored checkpoint has just merged a batch whose
\* timestamps are out of order.
C6_Witness ==
    /\ JustMerged
    /\ tick.since \in SpecStamps
    /\ \E i, k \in 1..Len(tick.events) :
          i < k /\ tick.events[i].timestamp > tick.events[k].timestamp
    /\ db.last_event_ts >= tick.since

\* C7: an ingestion tick whose log query fails, or whose batch holds no Join/Leave
\* event, changes neither the checkpoint nor a PlayerRecord nor the Event Log, in the
\* connection or committed, and the loop goes on to its next task with the flag as
\* it was.  (A tick whose SELECT of the checkpoint raises runs no log query and has
\* no `since`: it is an error tick, not a skipped one.)
C7_SkippedTickChangesNothing ==
    [][(TickStep /\ tick'.since # None /\ (tick'.rc # 0 \/ tick'.events = <<>>)) =>
          /\ db' = db
          /\ disk' = disk
          /\ pc' = "cleanup"
          /\ "player" \notin iter'.raised
          /\ running' = running]_vars

\* A tick has just been skipped with lines in its window, players and a checkpoint
\* in the database.
C7_Witness ==
    /\ pc = "cleanup" /\ "player" \in iter.ran /\ tick.kind = "tick"
    /\ tick.outcome = "query_failed"
    /\ db.last_event_ts # None
    /\ DOMAIN db.players # {}
    /\ JournalSince(journal, db.last_event_ts) # <<>>

\* The type of the last event of player u in a batch ("none": no event of u).
RECURSIVE LastTypeOf(_, _)
LastTypeOf(events, u) ==
    IF events = <<>> THEN "none"
    ELSE IF events[Len(events)].uuid = u THEN events[Len(events)].type
    ELSE LastTypeOf(SubSeq(events, 1, Len(events) - 1), u)

\* C10: every PlayerRecord with online = true has last_login set; and after a
\* backfill or a tick has merged a batch, a recorded player whose last event in the
\* batch is a Leave is not online.
C10_OnlineImpliesLogin ==
    /\ \A u \in DOMAIN db.players : db.players[u].online => db.players[u].last_login # None
    /\ \A u \in DOMAIN disk.players :
          disk.players[u].online => disk.players[u].last_login # None
    /\ tick.outcome \in {"merged", "synced"} =>
          \A u \in DOMAIN db.players :
              LastTypeOf(tick.events, u) = "leave" => ~db.players[u].online

\* A tick has just merged a Leave of a player who had logged in before.
C10_Witness ==
    /\ JustMerged
    /\ \E u \in DOMAIN db.players :
          /\ LastTypeOf(tick.events, u) = "leave"
          /\ db.players[u].last_login # None
          /\ ~db.players[u].online

\* ------------------------------------------------------------ shutdown
\* C11: once a shutdown signal has been received, the loop starts no further task:
\* at most one task (the one in flight when the signal arrived) runs with the flag
\* cleared before the loop ends.
C11_OneTaskAfterSignal == Cardinality(iter.late) <= 1

\* C12: graceful shutdown terminates: once the flag is cleared, at any point of the
\* startup or of the loop, the worker closes the connection and reaches "stopped"
\* with nothing uncommitted; and a stopped worker runs no task: nothing changes the
\* database or the timers until the service manager starts a new process, which
\* begins at the startup with the flag set.
C12_ShutdownTerminates ==
    /\ ~running ~> (pc = "stopped" /\ db = disk)
    /\ [][pc = "stopped" =>
            /\ db' = db /\ disk' = disk
            /\ <<last_perf, last_player, last_cleanup, iter, tick>>'
                  = <<last_perf, last_player, last_cleanup, iter, tick>>
            /\ pc' = "stopped" \/ (pc' = "starting" /\ running')]_vars

\* The worker has stopped on a signal that came after the last sleep it took with
\* the flag set: it has finished the iteration, slept once more and left the loop.
C12_Witness ==
    /\ pc = "stopped"
    /\ ~running
    /\ iters > MaxIters
    /\ db = disk

\* ------------------------------------------------------------ ticks over a given sequence
\* This step is an ingestion tick over the journal so far.
HTickStep == h'.ticks = h.ticks + 1

\* The whole sequence has been written and read, in one tick or in several, and no
\* tick has run without new lines.
Merged == h.pos = Len(h.input) /\ h.read = h.pos /\ ~h.again

\* The whole sequence has been read by one tick, the first.
MergedAtOnce == Merged /\ h.ticks = 1

HEvents == parse_player_events(h.input)

\* The events applied one after the other, each by the players statement of its
\* type.
RECURSIVE ApplyEvents(_, _)
ApplyEvents(players, events) ==
    IF events = <<>> THEN players
    ELSE ApplyEvents(UpdatePlayers(players, Head(events)), Tail(events))

\* C4: merge idempotence: after a tick has merged the lines of the journal (the
\* first tick: its batch is every line), a second tick over the same journal, no
\* line written in between, leaves every PlayerRecord (online, last_login,
\* last_logout, world, name per uuid) as the first tick left it.
C4_Idempotent ==
    [][(HTickStep /\ h.ticks = 1 /\ h.read = h.pos) => h'.store.players = h.store.players]_vars

\* Player u has a Leave in the input after u's first Join.
LeaveAfterFirstJoin(u) ==
    \E j \in 1..Len(HEvents) :
        /\ HEvents[j].uuid = u /\ HEvents[j].type = "join"
        /\ \E i \in (j + 1)..Len(HEvents) : HEvents[i].uuid = u /\ HEvents[i].type = "leave"

\* Every player with a Leave in the input has one after their first Join.
LeavesSettled ==
    \A i \in 1..Len(HEvents) :
        HEvents[i].type = "leave" => LeaveAfterFirstJoin(HEvents[i].uuid)

\* C18 as the spec states it: from an empty store, the startup backfill over a
\* sequence of Join/Leave events gives the PlayerRecord set that merging the
\* sequence through the reconciler (one ingestion tick, the first) gives, for every
\* sequence.  (Refuted: the backfill gives a player whose only event is a Leave a
\* record, the reconciler does not.)
C18_BackfillEqualsMerge ==
    (MergedAtOnce /\ h.synced /\ h.start = <<>>) => h.sync = h.store.players

\* C18, amended: the two give the same PlayerRecord set (same players, and per
\* player the same online, last_login, last_logout, world, name) for every
\* sequence in which every player with a Leave has a Leave after their first Join.
C18_BackfillEqualsMergeSettled ==
    (MergedAtOnce /\ h.synced /\ h.start = <<>> /\ LeavesSettled) => h.sync = h.store.players

\* From an empty store, a sequence that begins with a player's Leave and goes on
\* with the player's Join and another Leave has been merged by the first tick and
\* backfilled.
C18_Witness ==
    /\ MergedAtOnce
    /\ h.synced
    /\ h.start = <<>>
    /\ LeavesSettled
    /\ Len(HEvents) = 3
    /\ HEvents[1].type = "leave" /\ HEvents[2].type = "join" /\ HEvents[3].type = "leave"
    /\ h.sync = h.store.players
    /\ DOMAIN h.sync # {}

\* The input is [Join@t1, Leave@t2, Join@t3] of one player, t1 < t2 < t3.
JoinLeaveJoin ==
    /\ Len(HEvents) = 3
    /\ HEvents[1].type = "join" /\ HEvents[2].type = "leave" /\ HEvents[3].type = "join"
    /\ HEvents[2].uuid = HEvents[1].uuid /\ HEvents[3].uuid = HEvents[1].uuid
    /\ HEvents[1].timestamp < HEvents[2].timestamp
    /\ HEvents[2].timestamp < HEvents[3].timestamp

\* C8: however a sequence of events is split into consecutive batches merged by
\* successive ingestion ticks (the lines of a batch written between one tick and the
\* next), the final PlayerRecords equal those of applying the events of the whole
\* sequence one after the other; and [Join@t1, Leave@t2, Join@t3] ends with the
\* player online and last_login = t3.
C8_SplitEqualsWhole ==
    Merged =>
        /\ h.store.players = ApplyEvents(h.start, HEvents)
        /\ JoinLeaveJoin =>
              /\ h.store.players[HEvents[1].uuid].online
              /\ h.store.players[HEvents[1].uuid].last_login = HEvents[3].timestamp

\* The lines of the input carry timestamps that increase from line to line.
InOrder == \A i \in 1..(Len(h.input) - 1) : h.input[i].timestamp < h.input[i + 1].timestamp

\* The splits of the sequences whose timestamps increase end as the sequential
\* application does: a later tick reads again the one line at the checkpoint.
C8_SplitEqualsWholeInOrder ==
    (Merged /\ InOrder) => h.store.players = ApplyEvents(h.start, HEvents)

\* This step is a tick whose batch holds nothing but Leaves of players who have no
\* PlayerRecord.
UnknownLeaveStep ==
    /\ HTickStep
    /\ h'.batch # <<>>
    /\ \A i \in 1..Len(h'.batch) :
          h'.batch[i].type = "leave" /\ h'.batch[i].uuid \notin DOMAIN h.store.players

\* C9: merging a Leave event of a player who has no PlayerRecord creates no
\* PlayerRecord, changes no existing PlayerRecord, and appends exactly one
\* EventLogEntry, the one of that event: a tick whose batch holds such Leaves only
\* leaves the PlayerRecords as they were and appends one row per event, in the
\* batch's order, each mirroring its event.
C9_UnknownLeaveOnlyLogged ==
    [][UnknownLeaveStep =>
          /\ h'.store.players = h.store.players
          /\ h'.store.player_events =
                h.store.player_events \o
                    [i \in 1..Len(h'.batch) |->
                        [timestamp |-> h'.batch[i].timestamp, uuid |-> h'.batch[i].uuid,
                         name |-> h'.batch[i].name, event_type |-> "leave",
                         world |-> NoneText, lid |-> h'.batch[i].lid]]]_vars

\* A tick has just merged the Leave of a player without a record, alone, while
\* another player has one: the one row of the Event Log is the Leave's.
C9_Witness ==
    /\ h.ticks = 1
    /\ Len(h.batch) = 1
    /\ h.batch[1].type = "leave"
    /\ h.batch[1].uuid \notin DOMAIN h.store.players
    /\ DOMAIN h.store.players # {}
    /\ h.store.players = h.start
    /\ Len(h.store.player_events) = 1
    /\ h.store.player_events[1].lid = h.batch[1].lid

\* ------------------------------------------------------------ retention
\* This step is a cleanup tick.
PruneStep == h.op.kind = "sample" /\ h'.op.kind = "prune"

\* C13: retention: after a pruning run every PerformanceSample written more than
\* PERF_RETENTION_HOURS before the run is absent, and every younger one is still
\* present (in the order it had).
C13_Retention ==
    [][PruneStep =>
          h'.store.performance =
              SelectSeq(h.store.performance,
                        LAMBDA r : r.timestamp >= h.clk - PERF_RETENTION_HOURS * Hour)]_vars

\* C19: the pruner issues the compaction hint on a cleanup tick if and only if the
\* tick deleted a PerformanceSample or an EventLogEntry; a tick that deleted
\* nothing issues no pragma and ends without an error.
C19_HintOnlyAfterDelete ==
    [][PruneStep =>
          LET deleted == h'.op.deleted_perf > 0 \/ h'.op.deleted_events > 0
          IN  /\ h'.op.pragma <=> deleted
              /\ ~deleted => ~h'.op.raised]_vars


\* ------------------------------------------------------------ durability
\* The PlayerRecords after the mutations of the events the given Event Log rows
\* mirror, in the rows' order.
RECURSIVE ApplyRows(_, _)
ApplyRows(players, rows) ==
    IF rows = <<>> THEN players
    ELSE ApplyRows(UpdatePlayers(players,
                                 [type |-> Head(rows).event_type, timestamp |-> Head(rows).timestamp,
                                  uuid |-> Head(rows).uuid, name |-> Head(rows).name,
                                  world |-> Head(rows).world, lid |-> Head(rows).lid]),
                   Tail(rows))

\* The committed Event Log grows by `more` in this step (nothing is deleted).
Appended(more) == disk'.player_events = disk.player_events \o more

\* C14: per-event atomicity: whatever a step after the backfill makes durable, the
\* committed PlayerRecords change by exactly the mutations of the events whose
\* EventLogEntries become durable in that step: no mutation is committed without
\* its entry, no entry without its mutation.
C14_EventAtomic ==
    [][(pc # "starting" /\ Len(disk'.player_events) >= Len(disk.player_events)
            /\ Appended(SubSeq(disk'.player_events, Len(disk.player_events) + 1,
                               Len(disk'.player_events))))
          => disk'.players =
                ApplyRows(disk.players,
                          SubSeq(disk'.player_events, Len(disk.player_events) + 1,
                                 Len(disk'.player_events)))]_vars

\* C20: the checkpoint is never durable ahead of its batch: in every step that
\* changes the committed checkpoint, the EventLogEntry of every event of the batch
\* whose tick wrote that checkpoint is committed, the PlayerRecord of every player
\* the batch mutates is committed (a record with last_login set for a Join; the
\* online flag of the player's last event in the batch, 1 after a Join and 0 after
\* a Leave of a known player), and nothing the connection wrote is left pending.
C20_CheckpointNotAhead ==
    [][disk'.last_event_ts # disk.last_event_ts =>
          /\ disk'.last_event_ts = db'.last_event_ts
          /\ disk'.players = db'.players
          /\ disk'.player_events = db'.player_events
          /\ tick'.marked # <<>>
          /\ \A i \in 1..Len(tick'.marked) :
                LET e == tick'.marked[i]
                IN  /\ e.lid \in Lids(disk'.player_events)
                    /\ e.type = "join" =>
                          (e.uuid \in DOMAIN disk'.players
                           /\ disk'.players[e.uuid].last_login # None)
                    /\ (/\ e.uuid \in DOMAIN disk'.players
                        /\ \A k \in (i + 1)..Len(tick'.marked) :
                              tick'.marked[k].uuid # e.uuid) =>
                          disk'.players[e.uuid].online = (e.type = "join")]_vars

\* A tick has committed its checkpoint with its batch after an earlier tick of the
\* same process had raised part-way: the Event Log holds the earlier tick's rows
\* too.
C20_Witness ==
    /\ pc = "cleanup"
    /\ iters >= 1
    /\ tick.kind = "tick" /\ tick.outcome = "merged"
    /\ tick.marked = tick.events
    /\ disk.last_event_ts = tick.events[Len(tick.events)].timestamp
    /\ \A i \in 1..Len(tick.events) : tick.events[i].lid \in Lids(disk.player_events)
    /\ Len(disk.player_events) > Len(tick.events)
    /\ db = disk

\* ------------------------------------------------------------ metric ticks
\* This step is a metric tick.
SampleStep == h'.op.kind = "sample" /\ h'.op # h.op

\* No process was found, or ps failed.
ProbeUnavailable(p) ==
    \/ p.main = NoPid
    \/ p.child = NoPid /\ p.jar = NoPid
    \/ p.rc # 0

\* C15: every metric tick inserts exactly one PerformanceSample and leaves the
\* existing ones (and everything else stored) as they were; the sample's
\* cpu_percent, ram_mb and ram_percent are null when no process is found or the
\* probe fails, its tps and view_radius are null when the log query fails, and
\* its players_online is the number of PlayerRecords with online = true.
C15_OneSampleNullsKept ==
    [][SampleStep =>
          LET n == Len(h.store.performance)
              row == h'.store.performance[n + 1]
          IN  /\ Len(h'.store.performance) = n + 1
              /\ SubSeq(h'.store.performance, 1, n) = h.store.performance
              /\ h'.store.players = h.store.players
              /\ h'.store.player_events = h.store.player_events
              /\ ProbeUnavailable(h'.op.probe) =>
                    (row.cpu_percent = None /\ row.ram_mb = None /\ row.ram_percent = None)
              /\ h'.op.rc # 0 => (row.tps = None /\ row.view_radius = None)
              /\ row.players_online =
                    Cardinality({u \in DOMAIN h.store.players : h.store.players[u].online})]_vars

\* A second sample has been inserted by a tick whose log query failed, although the
\* journal holds a TPS line, and whose ps failed on a process that was found, with
\* a player online.
C15_Witness ==
    /\ h.op.kind = "sample"
    /\ h.op.rc # 0
    /\ h.op.probe.main # NoPid /\ h.op.probe.jar # NoPid /\ h.op.probe.rc # 0
    /\ \E i \in 1..Len(h.lines) : h.lines[i].kind = "tps"
    /\ Len(h.store.performance) = 2
    /\ h.store.performance[2].tps = None
    /\ h.store.performance[2].cpu_percent = None
    /\ h.store.performance[2].players_online = 1

\* The value of the last line of `kind` in the journal, None when there is none.
LatestOf(lines, kind) ==
    LET at == {i \in 1..Len(lines) : lines[i].kind = kind}
    IN  IF at = {} THEN None
        ELSE lines[CHOOSE i \in at : \A k \in at : k <= i].value

\* C17: metric extraction is latest-wins per field: the tps of a sample whose log
\* query succeeded is the value of the newest TPS line and its view_radius the
\* value of the newest view-radius line, each on its own, null when no line matches
\* (a line setting TPS to 18 and a newer one setting it to 20 give tps = 20).
C17_LatestWins ==
    [][(SampleStep /\ h'.op.rc = 0) =>
          LET row == h'.store.performance[Len(h'.store.performance)]
          IN  /\ row.tps = LatestOf(h.lines, "tps")
              /\ row.view_radius = LatestOf(h.lines, "vr")
              /\ (Len(h.lines) = 2 /\ h.lines[1].kind = "tps" /\ h.lines[1].value = 18
                     /\ h.lines[2].kind = "tps" /\ h.lines[2].value = 20) => row.tps = 20]_vars

\* A sample has been taken from a journal whose TPS line of 18 is followed by a
\* newer one of 20, and no view-radius line.
C17_Witness ==
    /\ h.op.kind = "sample"
    /\ h.op.rc = 0
    /\ Len(h.lines) = 2
    /\ h.lines[1].kind = "tps" /\ h.lines[1].value = 18
    /\ h.lines[2].kind = "tps" /\ h.lines[2].value = 20
    /\ Len(h.store.performance) = 1
    /\ h.store.performance[1].tps = 20
    /\ h.store.performance[1].view_radius = None

\* ------------------------------------------------------------ interval gating
\* The timer and the interval of a task.
LastRun(x) == IF x = "perf" THEN last_perf ELSE IF x = "player" THEN last_player ELSE last_cleanup
Interval(x) ==
    IF x = "perf" THEN PERF_INTERVAL ELSE IF x = "player" THEN PLAYER_INTERVAL
    ELSE CLEANUP_INTERVAL

\* C16: interval gating without catch-up: when an iteration of the loop reaches its
\* sleep, each task has been run in it if and only if its own interval had elapsed
\* at the top of the iteration; a task that was run has its timer at the
\* iteration's `now`, and a task that was not run has its timer where it was (its
\* interval still not elapsed).
C16_IntervalGating ==
    pc = "sleep" =>
        \A x \in {"perf", "player", "cleanup"} :
            IF x \in iter.ran
            THEN x \in iter.due /\ LastRun(x) = now
            ELSE x \notin iter.due /\ now - LastRun(x) < Interval(x)

====
